---- MODULE Spec2Model ----
\* Model of macrobell_scraper_db.py: main() run repeatedly against one SQLite
\* store.  Prices are exact decimals counted in units of 1/Scale; texts (item
\* names, price tokens) are sequences of one-character strings.
EXTENDS Integers, Sequences, FiniteSets, TLC

\* ---------------------------------------------------------------- bounds
NumStores == 2      \* store ids that may be registered: 1..NumStores
MaxRuns   == 3      \* invocations of main() in SpecHist
MaxDate   == 2      \* run dates are 1..MaxDate
MaxPages  == 2      \* pages in one crawl result
MaxItems  == 2      \* regex matches in one crawl result

StoreIds == 1..NumStores
Dates    == 1..MaxDate

None   == -1        \* Python None where a price is expected
NoDate == 0         \* NULL last_scraped_date / no pending UPDATE

\* ------------------------------------------------------------ text values
Taco    == <<"T", "a", "c", "o">>
TacoBox == <<"T", "a", "c", "o", " ", "B", "o", "x">>
Names   == {Taco, TacoBox}

\* tokens the item pattern can capture: "$" followed by digits and dots
Tok349   == <<"$", "3", ".", "4", "9">>
Tok34905 == <<"$", "3", ".", "4", "9", "0", "5">>
Tok3491  == <<"$", "3", ".", "4", "9", "1">>
Tok3492  == <<"$", "3", ".", "4", "9", "2">>
Tok123   == <<"$", "1", ".", "2", ".", "3">>
TokDot   == <<"$", ".">>
Tokens   == {Tok349, Tok34905, Tok3491, Tok3492, Tok123, TokDot}

EXCLUDED_ITEM_SUFFIXES ==
    { <<"b", "o", "x">>, <<"m", "e", "a", "l">>, <<"c", "o", "m", "b", "o">>,
      <<"s", "a", "u", "c", "e">>, <<"p", "a", "c", "k", "e", "t">>,
      <<"s", "a", "l", "s", "a">>, <<"p", "a", "c", "k">>,
      <<"m", "e", "a", "l", " ", "f", "o", "r", " ", "2">>,
      <<"m", "e", "a", "l", " ", "f", "o", "r", " ", "4">> }

UpperCase == <<"A", "B", "C", "D", "E", "F", "G", "H", "I", "J", "K", "L", "M",
               "N", "O", "P", "Q", "R", "S", "T", "U", "V", "W", "X", "Y", "Z">>
LowerCase == <<"a", "b", "c", "d", "e", "f", "g", "h", "i", "j", "k", "l", "m",
               "n", "o", "p", "q", "r", "s", "t", "u", "v", "w", "x", "y", "z">>

\* str.lower()
lower(s) ==
    [k \in 1..Len(s) |->
        IF \E u \in 1..26 : UpperCase[u] = s[k]
        THEN LowerCase[CHOOSE u \in 1..26 : UpperCase[u] = s[k]]
        ELSE s[k]]

\* str.endswith(suffix)
endswith(s, suffix) ==
    /\ Len(suffix) <= Len(s)
    /\ SubSeq(s, Len(s) - Len(suffix) + 1, Len(s)) = suffix

\* variant: the name is not lower-cased before the comparison
is_excluded_case_sensitive(nm) ==
    \E suffix \in EXCLUDED_ITEM_SUFFIXES : endswith(nm, suffix)

\* line 203: any(name.lower().endswith(suffix) for suffix in ...)
is_excluded(nm) == \E suffix \in EXCLUDED_ITEM_SUFFIXES : endswith(lower(nm), suffix)

\* ------------------------------------------------------------ price parser
Digits == <<"0", "1", "2", "3", "4", "5", "6", "7", "8", "9">>
IsDigit(c) == \E d \in 1..10 : Digits[d] = c
DigitVal(c) == (CHOOSE d \in 1..10 : Digits[d] = c) - 1
IsDigitOrDot(c) == IsDigit(c) \/ c = "."

\* line 206: re.sub(r"[^\d.]", "", price_str)
strip_price(ps) == SelectSeq(ps, IsDigitOrDot)

Scale    == 10000   \* one unit of the model's prices is 0.0001
FracLen  == 4       \* decimal places kept by Scale

RECURSIVE IntVal(_)
IntVal(ds) == IF ds = <<>> THEN 0
              ELSE 10 * IntVal(SubSeq(ds, 1, Len(ds) - 1)) + DigitVal(ds[Len(ds)])

RECURSIVE Pow10(_)
Pow10(k) == IF k = 0 THEN 1 ELSE 10 * Pow10(k - 1)

DotPositions(t) == {k \in 1..Len(t) : t[k] = "."}

\* float(text) raises ValueError unless text is digits with at most one dot
\* and at least one digit
float_ok(t) ==
    /\ Cardinality(DotPositions(t)) <= 1
    /\ \E k \in 1..Len(t) : IsDigit(t[k])

\* float(text) for a text float() accepts, in units of 1/Scale
float_val(t) ==
    LET dot  == IF DotPositions(t) = {} THEN Len(t) + 1
                ELSE CHOOSE k \in DotPositions(t) : TRUE
        ip   == SubSeq(t, 1, dot - 1)
        fp   == SubSeq(t, dot + 1, Len(t))
        fk   == SubSeq(fp, 1, IF Len(fp) < FracLen THEN Len(fp) ELSE FracLen)
    IN  IntVal(ip) * Scale + IntVal(fk) * Pow10(FracLen - Len(fk))

\* ---------------------------------------------------------- change detector
Epsilon == 10       \* 0.001 in units of 1/Scale

Abs(x) == IF x < 0 THEN -x ELSE x

\* line 217.  The subtraction is done in binary floating point: when the decimal
\* difference is exactly 0.001 the computed difference lands on either side of
\* the double 0.001 depending on the operands (abs(1.99 - 1.991) >= 0.001 but
\* abs(3.49 - 3.491) < 0.001); rnd is that outcome.
is_change(last_price, price_float, rnd) ==
    \/ last_price = None
    \/ LET d == Abs(last_price - price_float)
       IN  IF d = Epsilon THEN rnd ELSE d > Epsilon

\* --------------------------------------------------------------- the store
Row(s, n, p, d) == [store_id |-> s, item_name |-> n, price |-> p, scrape_date |-> d]

RowsOf(rows, s, n) ==
    {k \in 1..Len(rows) : rows[k].store_id = s /\ rows[k].item_name = n}

\* get_latest_price: ORDER BY scrape_date DESC LIMIT 1.  SQL leaves the order of
\* rows with equal scrape_date unspecified, so the result is any row of the
\* greatest date; the set of possible results is returned.
get_latest_price(rows, s, n) ==
    LET R == RowsOf(rows, s, n)
    IN  IF R = {} THEN {None}
        ELSE {rows[k].price :
                k \in {k \in R : \A j \in R : rows[j].scrape_date <= rows[k].scrape_date}}

RECURSIVE Descending(_)
Descending(S) ==
    IF S = {} THEN <<>>
    ELSE LET m == CHOOSE x \in S : \A y \in S : x >= y
         IN  <<m>> \o Descending(S \ {m})

RECURSIVE Ascending(_)
Ascending(S) ==
    IF S = {} THEN <<>>
    ELSE LET m == CHOOSE x \in S : \A y \in S : x <= y
         IN  <<m>> \o Ascending(S \ {m})

\* variant: ORDER BY store_id DESC
get_stores_descending(reg) == Descending(reg)

\* get_stores_to_scrape: SELECT store_id FROM stores ORDER BY store_id
get_stores_to_scrape(reg) == Ascending(reg)

\* variant: an empty crawl result is not tested
FetchFailedOnlyRaise(res) == res = "raise"

\* line 179: `if not crawled_pages`, and the except clause of line 225
FetchFailed(res) == res \in {"raise", "empty"}

\* variant: the seen-set is never consulted
never_seen(nm, seen) == FALSE

\* line 211: name in seen_items_for_store
already_seen(nm, seen) == nm \in seen

\* ------------------------------------------------------------------- state
VARIABLES
    registry,               \* store ids in table stores
    prices,                 \* table prices, committed rows in rowid order
    last_scraped,           \* stores.last_scraped_date, committed
    txn_prices,             \* rows inserted in the connection's open transaction
    txn_last,               \* last_scraped_date updates in the open transaction
    conn,                   \* "none", "open", "closed"
    pc,                     \* position of main()
    nruns,                  \* invocations of main() so far
    run_limit,              \* invocations of main() the behaviour may make
    today_str,              \* date of the current run; the next run's is not earlier
    stores_to_scrape,
    i,                      \* index of the for loop over stores_to_scrape
    seen_items_for_store,
    items_processed,
    prices_changed,
    page_no,                \* pages of crawled_pages consumed so far
    name, price_str,        \* the match being processed
    \* history of the current run
    attempted,              \* store ids whose crawl was requested, in order
    outcome,                \* per store: "none", the crawl result "raise", "empty" or
                            \* "pages", then "exc" (line 225), "done" (page loop
                            \* finished) or "store_error" (UPDATE or commit raised)
    dup_skips,              \* matches of the current store skipped at line 212
    commits,                \* per store: commits made in its iteration
    start_prices,           \* prices when the run began
    start_last,             \* last_scraped when the run began
    exc_rows,               \* per store: rows it had inserted when it raised
    evaluated,              \* per name: the price compared with the history at the
                            \* current store (line 215), None if none was
    last_completed,         \* per store: the invocation that last committed its
                            \* iteration, and what was evaluated there
    run_end                 \* how the last invocation ended

db    == <<registry, prices, last_scraped, txn_prices, txn_last, conn, run_limit>>
loop  == <<today_str, stores_to_scrape, i, seen_items_for_store, items_processed,
           prices_changed, page_no, name, price_str>>
hist  == <<attempted, outcome, dup_skips, commits, start_prices, start_last, exc_rows,
           evaluated, last_completed, run_end>>
vars  == <<db, pc, nruns, loop, hist>>

NoName == <<>>
NoEval == [n \in Names |-> None]
store_id == stores_to_scrape[i]

\* what the connection reads: committed rows, then its own uncommitted rows
View == prices \o txn_prices

\* a store left behind by an earlier run on date 1: per store either nothing, or one
\* observation of Taco with the store marked as scraped
PriorPrice == float_val(strip_price(Tok349))
PriorRows(S) == [k \in 1..Cardinality(S) |-> Row(Ascending(S)[k], Taco, PriorPrice, 1)]

InitWith(reg, rows, last, date, limit) ==
    /\ registry = reg
    /\ prices = rows
    /\ last_scraped = last
    /\ txn_prices = <<>>
    /\ txn_last = [s \in StoreIds |-> NoDate]
    /\ conn = "none"
    /\ pc = "idle"
    /\ nruns = 0
    /\ run_limit = limit
    /\ today_str = date
    /\ stores_to_scrape = <<>>
    /\ i = 0
    /\ seen_items_for_store = {}
    /\ items_processed = 0
    /\ prices_changed = 0
    /\ page_no = 0
    /\ name = NoName
    /\ price_str = NoName
    /\ attempted = <<>>
    /\ outcome = [s \in StoreIds |-> "none"]
    /\ dup_skips = 0
    /\ commits = [s \in StoreIds |-> 0]
    /\ start_prices = rows
    /\ start_last = last
    /\ exc_rows = [s \in StoreIds |-> 0]
    /\ evaluated = NoEval
    /\ last_completed = [s \in StoreIds |-> [run |-> 0, eval |-> NoEval]]
    /\ run_end = "none"

\* one run over any registry, on a store that earlier runs may have filled
Init ==
    \E reg \in SUBSET StoreIds, S \in SUBSET StoreIds :
        /\ S \subseteq reg
        /\ InitWith(reg, PriorRows(S), [s \in StoreIds |-> IF s \in S THEN 1 ELSE NoDate],
                    1, 1)

\* up to MaxRuns runs over a fresh store with at most one registered location
InitHist ==
    \E reg \in {{}, {1}} :
        InitWith(reg, <<>>, [s \in StoreIds |-> NoDate], NoDate, MaxRuns)

\* ----------------------------------------------------------------- actions
ResetHist ==
    /\ attempted' = <<>>
    /\ outcome' = [s \in StoreIds |-> "none"]
    /\ dup_skips' = 0
    /\ commits' = [s \in StoreIds |-> 0]
    /\ start_prices' = prices
    /\ start_last' = last_scraped
    /\ exc_rows' = [s \in StoreIds |-> 0]
    /\ evaluated' = NoEval
    /\ last_completed' = last_completed

\* lines 124-128: neither API_KEY nor FIRECRAWL_API_URL is set
MainConfigError ==
    /\ pc = "idle" /\ nruns < run_limit
    /\ nruns' = nruns + 1
    /\ ResetHist
    /\ run_end' = "config"
    /\ conn' = "none"
    /\ stores_to_scrape' = <<>> /\ i' = 0
    /\ UNCHANGED <<registry, run_limit, prices, last_scraped, txn_prices, txn_last, pc, today_str,
                   seen_items_for_store, items_processed, prices_changed, page_no,
                   name, price_str>>

\* lines 131-132: get_stores_to_scrape raises, outside the try of line 138
MainLoadFail ==
    /\ pc = "idle" /\ nruns < run_limit
    /\ nruns' = nruns + 1
    /\ ResetHist
    /\ run_end' = "loadfail"
    /\ conn' = "open"
    /\ stores_to_scrape' = <<>> /\ i' = 0
    /\ UNCHANGED <<registry, run_limit, prices, last_scraped, txn_prices, txn_last, pc, today_str,
                   seen_items_for_store, items_processed, prices_changed, page_no,
                   name, price_str>>

\* variant: the return of line 136 is left out, so the run goes on into the try
\* block, builds the client and loops over the empty list
MainNoStoresFallsThrough ==
    /\ pc = "idle" /\ nruns < run_limit
    /\ get_stores_to_scrape(registry) = <<>>
    /\ nruns' = nruns + 1
    /\ ResetHist
    /\ run_end' = "completed"
    /\ conn' = "closed"
    /\ stores_to_scrape' = <<>> /\ i' = 0
    /\ pc' = "finally"
    /\ UNCHANGED <<registry, run_limit, prices, last_scraped, txn_prices, txn_last, today_str,
                   seen_items_for_store, items_processed, prices_changed, page_no,
                   name, price_str>>

\* lines 131-136: no stores registered
MainNoStores ==
    /\ pc = "idle" /\ nruns < run_limit
    /\ get_stores_to_scrape(registry) = <<>>
    /\ nruns' = nruns + 1
    /\ ResetHist
    /\ run_end' = "nostores"
    /\ conn' = "closed"
    /\ stores_to_scrape' = <<>> /\ i' = 0
    /\ UNCHANGED <<registry, run_limit, prices, last_scraped, txn_prices, txn_last, pc, today_str,
                   seen_items_for_store, items_processed, prices_changed, page_no,
                   name, price_str>>

\* variant: the failure of line 144 is swallowed and the loop is entered
MainInitFailContinues ==
    /\ pc = "idle" /\ nruns < run_limit
    /\ get_stores_to_scrape(registry) # <<>>
    /\ nruns' = nruns + 1
    /\ ResetHist
    /\ run_end' = "initfail"
    /\ conn' = "open"
    /\ stores_to_scrape' = get_stores_to_scrape(registry) /\ i' = 1
    /\ pc' = "fetch"
    /\ UNCHANGED <<registry, run_limit, prices, last_scraped, txn_prices, txn_last, today_str,
                   seen_items_for_store, items_processed, prices_changed, page_no,
                   name, price_str>>

\* lines 131-144, 239-243: Firecrawl(...) raises inside the outer try
MainInitFail ==
    /\ pc = "idle" /\ nruns < run_limit
    /\ get_stores_to_scrape(registry) # <<>>
    /\ nruns' = nruns + 1
    /\ ResetHist
    /\ run_end' = "initfail"
    /\ conn' = "open"
    /\ stores_to_scrape' = get_stores_to_scrape(registry) /\ i' = 0
    /\ pc' = "finally"
    /\ UNCHANGED <<registry, run_limit, prices, last_scraped, txn_prices, txn_last, today_str,
                   seen_items_for_store, items_processed, prices_changed, page_no,
                   name, price_str>>

\* lines 131-148: stores loaded, client built, today_str taken, loop entered
MainBegin(d) ==
    /\ pc = "idle" /\ nruns < run_limit
    /\ get_stores_to_scrape(registry) # <<>>
    /\ today_str <= d /\ d <= today_str + 1
    /\ nruns' = nruns + 1
    /\ ResetHist
    /\ run_end' = "running"
    /\ conn' = "open"
    /\ stores_to_scrape' = get_stores_to_scrape(registry)
    /\ i' = 1
    /\ today_str' = d
    /\ pc' = "fetch"
    /\ UNCHANGED <<registry, run_limit, prices, last_scraped, txn_prices, txn_last,
                   seen_items_for_store, items_processed, prices_changed, page_no,
                   name, price_str>>

\* `continue` of the loop over stores, or its exhaustion (then line 241)
NextStore ==
    IF i < Len(stores_to_scrape)
    THEN /\ i' = i + 1 /\ pc' = "fetch" /\ run_end' = run_end
    ELSE /\ i' = i /\ pc' = "finally" /\ run_end' = "completed"

\* variant: the seen-set is built once, before the loop over the stores
FetchKeepsSeen(res) ==
    /\ pc = "fetch"
    /\ items_processed' = 0
    /\ prices_changed' = 0
    /\ seen_items_for_store' = seen_items_for_store
    /\ attempted' = Append(attempted, stores_to_scrape[i])
    /\ page_no' = 0
    /\ outcome' = [outcome EXCEPT ![stores_to_scrape[i]] = res]
    /\ dup_skips' = 0
    /\ evaluated' = NoEval
    /\ IF FetchFailed(res)
       THEN NextStore
       ELSE i' = i /\ pc' = "pages" /\ run_end' = run_end
    /\ UNCHANGED <<db, nruns, today_str, stores_to_scrape, name, price_str,
                   commits, start_prices, start_last, exc_rows, last_completed>>

\* lines 148-183: loop body up to the crawl and its result
Fetch(res) ==
    /\ pc = "fetch"
    /\ items_processed' = 0
    /\ prices_changed' = 0
    /\ seen_items_for_store' = {}
    /\ attempted' = Append(attempted, store_id)
    /\ page_no' = 0
    /\ outcome' = [outcome EXCEPT ![store_id] = res]
    /\ dup_skips' = 0
    /\ evaluated' = NoEval
    /\ IF FetchFailed(res)
       THEN NextStore
       ELSE i' = i /\ pc' = "pages" /\ run_end' = run_end
    /\ UNCHANGED <<db, nruns, today_str, stores_to_scrape, name, price_str,
                   commits, start_prices, start_last, exc_rows, last_completed>>

\* lines 186-199: next page; has_md is whether a markdown text was obtained
NextPage(has_md) ==
    /\ pc = "pages"
    /\ page_no < MaxPages
    /\ page_no' = page_no + 1
    /\ pc' = IF has_md THEN "matches" ELSE "pages"
    /\ UNCHANGED <<db, nruns, today_str, stores_to_scrape, i, seen_items_for_store,
                   items_processed, prices_changed, name, price_str, hist>>

\* line 201: the matches of the page are exhausted
EndMatches ==
    /\ pc = "matches"
    /\ pc' = "pages"
    /\ name' = NoName /\ price_str' = NoName
    /\ UNCHANGED <<db, nruns, today_str, stores_to_scrape, i, seen_items_for_store,
                   items_processed, prices_changed, page_no, hist>>

\* line 186 exhausted: the try block ends normally
EndPages ==
    /\ pc = "pages"
    /\ page_no >= 1
    /\ pc' = "update"
    /\ outcome' = [outcome EXCEPT ![store_id] = "done"]
    /\ UNCHANGED <<db, nruns, loop, attempted, dup_skips, commits, start_prices,
                   start_last, exc_rows, evaluated, last_completed, run_end>>

\* variant: the handler falls through to the UPDATE instead of `continue`
ExtractionRaisedFallsThrough(seen) ==
    /\ outcome' = [outcome EXCEPT ![stores_to_scrape[i]] = "exc"]
    /\ exc_rows' = [exc_rows EXCEPT
                      ![stores_to_scrape[i]] =
                          Cardinality({k \in 1..Len(txn_prices) :
                                         txn_prices[k].store_id = stores_to_scrape[i]})]
    /\ i' = i /\ pc' = "update" /\ run_end' = run_end
    /\ seen_items_for_store' = seen
    /\ UNCHANGED <<prices_changed, txn_prices, dup_skips, evaluated>>

\* lines 225-227 reached from inside the page loop; seen is the seen-set then
ExtractionRaised(seen) ==
    /\ outcome' = [outcome EXCEPT ![store_id] = "exc"]
    /\ exc_rows' = [exc_rows EXCEPT
                      ![store_id] = Cardinality({k \in 1..Len(txn_prices) :
                                                   txn_prices[k].store_id = store_id})]
    /\ NextStore
    /\ seen_items_for_store' = seen
    /\ UNCHANGED <<prices_changed, txn_prices, dup_skips, evaluated>>

\* lines 201-223: one match (nm, ps); rnd is the rounding of the float
\* subtraction, read_ok whether the SELECT of get_latest_price succeeds
ProcessMatch(nm, ps, rnd, read_ok) ==
    /\ pc = "matches"
    /\ items_processed < MaxItems
    /\ \E lp \in get_latest_price(View, store_id, nm) :
         LET price_float_str == strip_price(ps)
             price_float == float_val(price_float_str)
             keep == UNCHANGED <<outcome, exc_rows, i, pc, run_end>>
         IN  IF is_excluded(nm) \/ price_float_str = <<>>
             THEN /\ keep
                  /\ UNCHANGED <<seen_items_for_store, prices_changed, txn_prices,
                                 dup_skips, evaluated>>
             ELSE IF ~float_ok(price_float_str)
             THEN ExtractionRaised(seen_items_for_store)
             ELSE IF already_seen(nm, seen_items_for_store)
             THEN /\ keep
                  /\ dup_skips' = dup_skips + 1
                  /\ UNCHANGED <<seen_items_for_store, prices_changed, txn_prices,
                                 evaluated>>
             ELSE IF ~read_ok
             THEN ExtractionRaised(seen_items_for_store \cup {nm})
             ELSE /\ keep
                  /\ seen_items_for_store' = seen_items_for_store \cup {nm}
                  /\ dup_skips' = dup_skips
                  /\ evaluated' = [evaluated EXCEPT ![nm] = price_float]
                  /\ IF is_change(lp, price_float, rnd)
                     THEN /\ txn_prices' = Append(txn_prices,
                                               Row(store_id, nm, price_float, today_str))
                          /\ prices_changed' = prices_changed + 1
                     ELSE UNCHANGED <<txn_prices, prices_changed>>
    /\ items_processed' = items_processed + 1
    /\ name' = nm /\ price_str' = ps
    /\ UNCHANGED <<registry, run_limit, prices, last_scraped, txn_last, conn, nruns,
                   today_str, stores_to_scrape, page_no, attempted, commits,
                   start_prices, start_last, last_completed>>

\* variant: the UPDATE statement is left out
UpdateStoreOmitted(ok) ==
    /\ pc = "update"
    /\ pc' = "commit"
    /\ UNCHANGED <<db, nruns, loop, hist>>

\* lines 230-233: UPDATE stores SET last_scraped_date; ok is whether it succeeds
UpdateStore(ok) ==
    /\ pc = "update"
    /\ IF ok
       THEN /\ txn_last' = [txn_last EXCEPT ![store_id] = today_str]
            /\ pc' = "commit"
            /\ run_end' = run_end
       ELSE /\ txn_last' = txn_last
            /\ pc' = "finally"
            /\ run_end' = "aborted"
    /\ outcome' = IF ok THEN outcome ELSE [outcome EXCEPT ![store_id] = "store_error"]
    /\ UNCHANGED <<registry, run_limit, prices, last_scraped, txn_prices, conn, nruns, loop,
                   attempted, dup_skips, commits, start_prices, start_last, exc_rows,
                   evaluated, last_completed>>

\* variant: the commit replaces the committed observations by the pending ones
CommitOverwrites(ok) ==
    /\ pc = "commit"
    /\ IF ok
       THEN /\ prices' = txn_prices
            /\ last_scraped' = [s \in StoreIds |->
                                  IF txn_last[s] # NoDate THEN txn_last[s]
                                  ELSE last_scraped[s]]
            /\ txn_prices' = <<>>
            /\ txn_last' = [s \in StoreIds |-> NoDate]
            /\ commits' = [commits EXCEPT ![stores_to_scrape[i]] = @ + 1]
            /\ last_completed' = [last_completed EXCEPT
                                    ![stores_to_scrape[i]] =
                                        [run |-> nruns, eval |-> evaluated]]
            /\ NextStore
       ELSE /\ UNCHANGED <<prices, last_scraped, txn_prices, txn_last, commits, i,
                           last_completed>>
            /\ pc' = "finally"
            /\ run_end' = "aborted"
    /\ outcome' = IF ok THEN outcome
                  ELSE [outcome EXCEPT ![stores_to_scrape[i]] = "store_error"]
    /\ UNCHANGED <<registry, run_limit, conn, nruns, today_str, stores_to_scrape,
                   seen_items_for_store, items_processed, prices_changed, page_no,
                   name, price_str, attempted, dup_skips, start_prices, start_last,
                   exc_rows, evaluated>>

\* line 234: conn.commit(); ok is whether it succeeds
Commit(ok) ==
    /\ pc = "commit"
    /\ IF ok
       THEN /\ prices' = prices \o txn_prices
            /\ last_scraped' = [s \in StoreIds |->
                                  IF txn_last[s] # NoDate THEN txn_last[s]
                                  ELSE last_scraped[s]]
            /\ txn_prices' = <<>>
            /\ txn_last' = [s \in StoreIds |-> NoDate]
            /\ commits' = [commits EXCEPT ![store_id] = @ + 1]
            /\ last_completed' = [last_completed EXCEPT
                                    ![store_id] = [run |-> nruns, eval |-> evaluated]]
            /\ NextStore
       ELSE /\ UNCHANGED <<prices, last_scraped, txn_prices, txn_last, commits, i,
                           last_completed>>
            /\ pc' = "finally"
            /\ run_end' = "aborted"
    /\ outcome' = IF ok THEN outcome ELSE [outcome EXCEPT ![store_id] = "store_error"]
    /\ UNCHANGED <<registry, run_limit, conn, nruns, today_str, stores_to_scrape,
                   seen_items_for_store, items_processed, prices_changed, page_no,
                   name, price_str, attempted, dup_skips, start_prices, start_last,
                   exc_rows, evaluated>>

\* lines 241-243: conn.close() discards the open transaction
Close ==
    /\ pc = "finally"
    /\ conn' = "closed"
    /\ txn_prices' = <<>>
    /\ txn_last' = [s \in StoreIds |-> NoDate]
    /\ pc' = "idle"
    /\ stores_to_scrape' = <<>> /\ i' = 0
    /\ seen_items_for_store' = {} /\ items_processed' = 0 /\ prices_changed' = 0
    /\ page_no' = 0 /\ name' = NoName /\ price_str' = NoName
    /\ UNCHANGED <<registry, run_limit, prices, last_scraped, nruns, today_str, hist>>

Next ==
    \/ MainConfigError
    \/ MainLoadFail
    \/ MainNoStores
    \/ MainInitFail
    \/ \E d \in Dates : MainBegin(d)
    \/ \E res \in {"raise", "empty", "pages"} : Fetch(res)
    \/ \E has_md \in BOOLEAN : NextPage(has_md)
    \/ EndMatches
    \/ EndPages
    \/ \E nm \in Names, ps \in Tokens, rnd \in BOOLEAN, read_ok \in BOOLEAN :
            ProcessMatch(nm, ps, rnd, read_ok)
    \/ \E ok \in BOOLEAN : UpdateStore(ok)
    \/ \E ok \in BOOLEAN : Commit(ok)
    \/ Close

Spec == Init /\ [][Next]_vars

SpecHist == InitHist /\ [][Next]_vars

\* a run that has begun keeps executing: every statement of main() returns
RunStep ==
    \/ \E res \in {"raise", "empty", "pages"} : Fetch(res)
    \/ \E has_md \in BOOLEAN : NextPage(has_md)
    \/ EndMatches
    \/ EndPages
    \/ \E nm \in Names, ps \in Tokens, rnd \in BOOLEAN, read_ok \in BOOLEAN :
            ProcessMatch(nm, ps, rnd, read_ok)
    \/ \E ok \in BOOLEAN : UpdateStore(ok)
    \/ \E ok \in BOOLEAN : Commit(ok)
    \/ Close

SpecLive == Spec /\ WF_vars(RunStep)

\* ------------------------------------------------------------- properties
CountRows(rows, s) == Cardinality({k \in 1..Len(rows) : rows[k].store_id = s})
CountPair(rows, s, n) == Cardinality(RowsOf(rows, s, n))

\* the committed observations of one pair, oldest first
Series(s, n) ==
    LET OfPair(r) == r.store_id = s /\ r.item_name = n
    IN  SelectSeq(prices, OfPair)

\* the change decision on exact decimals
ExactChange(previous, candidate) ==
    previous = None \/ Abs(previous - candidate) >= Epsilon

\* the iteration of store s is under way
InTurn(s) == pc \in {"pages", "matches", "update", "commit"} /\ store_id = s

\* after store s the loop went on: a later store was or is about to be crawled,
\* or s was the last one and the loop ended
MovedOn(s) ==
    IF \E t \in registry : t > s
    THEN \/ pc = "fetch" /\ store_id > s
         \/ \E k \in 1..Len(attempted) : attempted[k] > s
    ELSE pc \in {"finally", "idle"}

\* C1: for every (location, item) pair, no two committed observations that are
\* adjacent in date order have prices that differ by less than 0.001.
C1_AdjacentPricesDiffer ==
    \A s \in StoreIds, n \in Names :
        \A k \in 1..(Len(Series(s, n)) - 1) :
            Abs(Series(s, n)[k + 1].price - Series(s, n)[k].price) >= Epsilon

\* C2: at every point of a run all uncommitted writes belong to the location
\* being processed, and what a commit applies is that location's inserts together
\* with that location's last-processed-date update.
C2_PendingBelongsToCurrent ==
    /\ \A k \in 1..Len(txn_prices) :
          pc # "idle" /\ txn_prices[k].store_id = store_id
    /\ \A s \in StoreIds :
          txn_last[s] # NoDate => pc = "commit" /\ s = store_id
    /\ pc = "commit" => txn_last[store_id] = today_str

\* C3: the observations a location had inserted when an exception ended its
\* extraction never become durable.
C3_SkippedRowsNeverDurable ==
    \A s \in StoreIds :
        outcome[s] = "exc" => CountRows(prices, s) = CountRows(start_prices, s)

\* C4: a crawl that raises and a crawl that returns nothing have the same effect:
\* no observation of the location is written, its last-processed date is not
\* changed, no commit is made for it, and the run goes on to the next location.
C4_FetchFailureSkipsLocation ==
    \A s \in StoreIds :
        outcome[s] \in {"raise", "empty"} =>
            /\ CountRows(View, s) = CountRows(start_prices, s)
            /\ last_scraped[s] = start_last[s]
            /\ txn_last[s] = NoDate
            /\ commits[s] = 0
            /\ MovedOn(s)

C4_Witness ==
    /\ pc = "idle" /\ run_end = "completed"
    /\ outcome[1] = "raise" /\ outcome[2] = "empty"
    /\ start_last[1] = 1 /\ CountRows(start_prices, 1) = 1

\* C5: a candidate whose price text cannot be turned into a number is dropped
\* silently: it is counted as processed and the loop over the location's
\* candidates goes on.
C5_UnparsableIsDropped ==
    (/\ price_str # NoName
     /\ ~is_excluded(name)
     /\ ~float_ok(strip_price(price_str)))
        => pc = "matches" /\ items_processed >= 1

\* C6 as stated: after a failure during extraction the location's last-processed
\* date is still updated and its pending writes are committed.
C6_ExtractionFailureStillCommits ==
    \A s \in StoreIds :
        (outcome[s] = "exc" /\ pc = "idle") =>
            last_scraped[s] = today_str /\ commits[s] = 1

\* C6 amended: a failure during extraction, like a failure during fetching, leaves
\* the location's last-processed date untouched and makes no commit in its turn;
\* the date is updated and a commit made only for a location whose page loop
\* finished.
C6_FailureLeavesMetadata ==
    \A s \in StoreIds :
        /\ outcome[s] \in {"raise", "empty", "exc"} =>
              /\ last_scraped[s] = start_last[s]
              /\ txn_last[s] = NoDate
              /\ commits[s] = 0
        /\ (last_scraped[s] # start_last[s] \/ commits[s] > 0) => outcome[s] = "done"
        /\ txn_last[s] # NoDate => outcome[s] \in {"done", "store_error"}

C6_Witness ==
    \E s \in StoreIds :
        outcome[s] = "exc" /\ exc_rows[s] >= 1 /\ pc = "idle" /\ run_end = "completed"

\* a step that processes one match without raising
MatchStep ==
    /\ pc = "matches"
    /\ items_processed' = items_processed + 1
    /\ outcome' = outcome

\* the processed match passes the filter, parses and is a first occurrence
Eligible ==
    /\ ~is_excluded(name')
    /\ float_ok(strip_price(price_str'))
    /\ name' \notin seen_items_for_store

LatestPrices == get_latest_price(View, store_id, name')
Candidate == float_val(strip_price(price_str'))

C8_OneObservationPerItem ==
    /\ [](\A s \in StoreIds, n \in Names :
            CountPair(View, s, n) <= CountPair(start_prices, s, n) + 1)
    /\ [][MatchStep =>
            /\ name' \in seen_items_for_store => txn_prices' = txn_prices
            /\ (Eligible /\ LatestPrices = {Candidate}) => txn_prices' = txn_prices
         ]_vars

C8_Witness ==
    /\ pc = "matches" /\ page_no = 2 /\ items_processed = 2
    /\ name = Taco /\ price_str = Tok349
    /\ dup_skips = 1 /\ prices_changed = 0
    /\ get_latest_price(start_prices, store_id, Taco) = {float_val(strip_price(Tok349))}
    /\ CountPair(View, store_id, Taco) = 1

Range(f) == {f[k] : k \in 1..Len(f)}

C10_WrittenIffExactChange ==
    [][(MatchStep /\ Eligible) =>
          \A lp \in LatestPrices :
              (txn_prices' # txn_prices) <=> ExactChange(lp, Candidate)
      ]_vars

\* names on which the filter is evaluated beside those of the pages
CrunchyTacoBox == <<"C", "r", "u", "n", "c", "h", "y", " ", "T", "a", "c", "o", " ",
                    "B", "o", "x">>
CrunchyTaco == <<"C", "r", "u", "n", "c", "h", "y", " ", "T", "a", "c", "o">>
UpperBox    == <<"T", "A", "C", "O", " ", "B", "O", "X">>
BoxFirst    == <<"B", "o", "x", " ", "T", "a", "c", "o">>
MealFor2    == <<"T", "a", "c", "o", " ", "M", "e", "a", "l", " ", "F", "o", "r", " ", "2">>
MealFor3    == <<"T", "a", "c", "o", " ", "M", "e", "a", "l", " ", "F", "o", "r", " ", "3">>
Ox          == <<"o", "x">>
SauceSpace  == <<"H", "o", "t", " ", "S", "a", "u", "c", "e", " ">>
FilterCases == Names \cup {CrunchyTacoBox, CrunchyTaco, UpperBox, BoxFirst, MealFor2,
                           MealFor3, Ox, SauceSpace}

\* two characters are the same letter in either case, or the same character
SameLetter(a, b) ==
    \/ a = b
    \/ \E u \in 1..26 : {a, b} = {UpperCase[u], LowerCase[u]}

\* the name ends with a configured suffix, letters compared without regard to case
EndsWithExcludedSuffix(nm) ==
    \E suffix \in EXCLUDED_ITEM_SUFFIXES :
        /\ Len(suffix) <= Len(nm)
        /\ \A k \in 1..Len(suffix) :
              SameLetter(nm[Len(nm) - Len(suffix) + k], suffix[k])

\* the filter of line 203 decides every case as the suffix rule does
FilterAgreesOnCases ==
    /\ \A nm \in FilterCases : is_excluded(nm) <=> EndsWithExcludedSuffix(nm)
    /\ is_excluded(CrunchyTacoBox) /\ ~is_excluded(CrunchyTaco)

\* a step that takes one match from the page, whatever becomes of it
TakesMatch == pc = "matches" /\ items_processed' = items_processed + 1

\* C11: a candidate is excluded iff its name ends, case-insensitively, with a
\* configured suffix ("Crunchy Taco Box" is, "Crunchy Taco" is not); an excluded
\* candidate writes no observation, is not added to the seen-set and raises
\* nothing, and a candidate that is not excluded, parses and is a first occurrence
\* is added to the seen-set.
C11_ExcludedIffSuffix ==
    /\ [](/\ FilterAgreesOnCases
          /\ \A k \in 1..Len(View) : ~EndsWithExcludedSuffix(View[k].item_name)
          /\ \A nm \in seen_items_for_store : ~EndsWithExcludedSuffix(nm))
    /\ [][TakesMatch =>
            /\ EndsWithExcludedSuffix(name') =>
                  /\ txn_prices' = txn_prices
                  /\ seen_items_for_store' = seen_items_for_store
                  /\ prices_changed' = prices_changed
                  /\ outcome' = outcome /\ pc' = "matches"
            /\ (/\ ~EndsWithExcludedSuffix(name')
                /\ float_ok(strip_price(price_str'))
                /\ outcome' = outcome)
                  => name' \in seen_items_for_store'
         ]_vars

C11_Witness ==
    /\ pc = "matches" /\ items_processed = 2
    /\ name = TacoBox /\ price_str = Tok3492
    /\ seen_items_for_store = {Taco} /\ prices_changed = 1
    /\ CountPair(View, store_id, TacoBox) = 0

\* the client of line 144 was built in the last invocation: only MainBegin gets
\* past line 144
ProviderInitialised == run_end \in {"running", "completed", "aborted"}

\* C12: when the location list is empty the run ends at once: the provider is
\* neither initialised nor called, no observation is written, no last-processed
\* date is updated, nothing is committed, and the connection is closed.
C12_EmptyListEndsRun ==
    /\ (nruns >= 1 /\ registry = {}) =>
          /\ run_end \in {"config", "loadfail", "nostores"}
          /\ ~ProviderInitialised
          /\ pc = "idle"
          /\ attempted = <<>>
          /\ prices = start_prices /\ txn_prices = <<>>
          /\ last_scraped = start_last
          /\ \A s \in StoreIds : txn_last[s] = NoDate /\ commits[s] = 0
    /\ run_end = "nostores" => registry = {} /\ conn = "closed"

C12_Witness ==
    /\ registry = {} /\ nruns = 1 /\ run_end = "nostores"
    /\ conn = "closed" /\ pc = "idle"

\* C13: a failure of provider initialisation, whether the missing configuration
\* of line 124 or the constructor of line 144 raising, ends the whole run before
\* any location is touched: no crawl is requested, nothing is written, updated or
\* committed, the only step left to the run is closing the connection, and the
\* persisted store stays as it was.
C13_InitFailureIsFatal ==
    /\ [](run_end \in {"config", "initfail"} =>
            /\ pc \in {"finally", "idle"}
            /\ attempted = <<>>
            /\ \A s \in StoreIds : outcome[s] = "none" /\ commits[s] = 0
                                     /\ txn_last[s] = NoDate
            /\ txn_prices = <<>>
            /\ prices = start_prices /\ last_scraped = start_last
            /\ run_end = "config" => pc = "idle" /\ conn = "none"
            /\ run_end = "initfail" => registry # {}
            /\ (run_end = "initfail" /\ pc = "idle") => conn = "closed")
    /\ [][(run_end' \in {"config", "initfail"} /\ run_end' # run_end) =>
              prices' = prices /\ last_scraped' = last_scraped]_vars

C13_Witness ==
    /\ run_end = "initfail" /\ pc = "idle" /\ conn = "closed" /\ nruns = 1
    /\ registry = StoreIds
    /\ Len(prices) = NumStores /\ \A s \in StoreIds : last_scraped[s] = 1

\* sequence p is an initial part of sequence q
IsPrefix(p, q) == Len(p) <= Len(q) /\ SubSeq(q, 1, Len(p)) = p

\* C14: committed observations are append-only: every step of every run leaves
\* each committed observation in place and unchanged, so the committed
\* observations only grow, and what a run has committed begins with what was
\* committed when it started.
C14_AppendOnly ==
    /\ [][IsPrefix(prices, prices')]_vars
    /\ [](IsPrefix(start_prices, prices))

C14_Witness ==
    /\ nruns = 3 /\ pc = "idle" /\ run_end = "completed"
    /\ Len(start_prices) = 1 /\ Len(prices) = 2
    /\ prices[1].scrape_date < prices[2].scrape_date

\* C15: the seen-set is empty when the processing of a location starts, whatever
\* happened at the location before it; it holds only names taken from this
\* location's pages, so the first candidate of a location is never skipped as a
\* duplicate.
C15_SeenSetIsPerLocation ==
    /\ [](pc \in {"pages", "matches", "update", "commit"} =>
            Cardinality(seen_items_for_store) <= items_processed)
    /\ [][/\ attempted' # attempted => seen_items_for_store' = {}
          /\ TakesMatch =>
                /\ seen_items_for_store' \subseteq seen_items_for_store \cup {name'}
                /\ seen_items_for_store \subseteq seen_items_for_store'
                /\ items_processed = 0 => dup_skips' = 0
                /\ (/\ items_processed = 0
                    /\ ~EndsWithExcludedSuffix(name')
                    /\ float_ok(strip_price(price_str'))
                    /\ outcome' = outcome)
                      => seen_items_for_store' = {name'}
         ]_vars

C15_Witness ==
    /\ pc = "matches" /\ i = 2
    /\ outcome[1] = "exc" /\ exc_rows[1] = 1
    /\ name = Taco /\ items_processed = 1
    /\ seen_items_for_store = {Taco} /\ dup_skips = 0 /\ prices_changed = 1

\* C16: of several candidates with the same name at one location, only the first
\* one that passes the filter and parses is compared with the history; every
\* later one is skipped: it writes nothing, leaves the seen-set alone, and the
\* loop over the location's candidates goes on.
C16_LaterOccurrencesSkipped ==
    [][(TakesMatch /\ name' \in seen_items_for_store) =>
          /\ txn_prices' = txn_prices
          /\ prices_changed' = prices_changed
          /\ seen_items_for_store' = seen_items_for_store
          /\ outcome' = outcome /\ pc' = "matches"
      ]_vars

\* the previous invocation committed the iteration of the current store
CompletedLastRun == nruns >= 2 /\ last_completed[store_id].run = nruns - 1

\* C17: when the previous run completed a location and this run fetches the same
\* content for it, on the same or a later date, this run writes no observation
\* for the location: a candidate evaluated with the price that was evaluated for
\* its name in the previous run is not written. (Prices exactly 0.001 away from a
\* latest price are left aside: there the result of line 217 is fixed by the
\* operands, which rnd does not record.)
C17_RerunWritesNothing ==
    [][(/\ MatchStep /\ Eligible
        /\ CompletedLastRun
        /\ last_completed[store_id].eval[name'] = Candidate
        /\ \A lp \in LatestPrices : lp = None \/ Abs(lp - Candidate) # Epsilon)
          => txn_prices' = txn_prices
      ]_vars

\* the observations of store s among rows, in order
RowsOfStore(rows, s) ==
    LET OfStore(r) == r.store_id = s
    IN  SelectSeq(rows, OfStore)

\* C18: what a run leaves durable for a location depends only on the store at the
\* start and on that location's own crawl result and pages, not on what happens
\* at other locations. A location whose crawl failed or whose extraction raised
\* ends a run in which every other crawl failed with the observations and the
\* date it started with; so it must end every completed run in that way.
C18_DurableStateIsOwn ==
    (pc = "idle" /\ run_end = "completed") =>
        \A s \in StoreIds :
            outcome[s] \in {"raise", "empty", "exc"} =>
                /\ RowsOfStore(prices, s) = RowsOfStore(start_prices, s)
                /\ last_scraped[s] = start_last[s]

\* C19: whenever an invocation of main() that opened the connection has ended,
\* on whatever path, the connection is closed.
C19_ConnectionClosedAtEnd ==
    (pc = "idle" /\ run_end \notin {"none", "config"}) => conn = "closed"

====
